---- MODULE Spec2Model ----
(***************************************************************************)
(* A model of the gym tracker: the SQLite store shared by the two app      *)
(* variants (src/main.py, src/main_md.py), the handlers that write it and  *)
(* the analytics of WeightTracker.calculate_summary_stats.                 *)
(*                                                                         *)
(* Modelling conventions                                                   *)
(*  - a text (widget text, stored name) is a sequence of one-character     *)
(*    strings, so that str.strip(), int() and float() are computed;        *)
(*  - a timestamp is a number of seconds; datetime.strftime/strptime with  *)
(*    "%Y-%m-%d %H:%M:%S" is the identity on whole seconds;                *)
(*  - weights are whole pounds (the input texts carry no fraction);        *)
(*  - an optional value (Python None, a ValueError) is <<>> and a present  *)
(*    value v is <<v>>, except SQL NULL in a row, which is NULL;           *)
(*  - a table is [exists, columns, rows], rows in rowid order, a row being *)
(*    a function from column names to values.                              *)
(***************************************************************************)
EXTENDS Integers, Sequences, FiniteSets, TLC

VARIABLES
    db,                \* the store: one table per name in TableNames
    now,               \* the wall clock read by datetime.now(), in seconds
    boot,              \* main.py: position in post_init ("off", "inited", "checked", "ready")
    data,              \* main.py: WeightTracker.data
    exercise_spinner,  \* main.py: ids.exercise_spinner (values, text)
    routine_spinner,   \* main.py: ids.routine_spinner (values, text)
    status,            \* main.py: ids.status_label (text, error colour)
    labels,            \* main.py: last_workout_details and the nine change labels
    md                 \* main_md.py: app state (started, current_routine_id, cards, snackbar)

vars == <<db, now, boot, data, exercise_spinner, routine_spinner, status, labels, md>>

-----------------------------------------------------------------------------
(* Bounds of the model *)

\* rows the workout_log may hold under Spec before save_data stops being offered
MaxLog == 1
\* the same under SpecLog, the specification of repeated logging
MaxLongLog == 2
\* the same under SpecMd, the specification of main_md.py
MaxMdLog == 1
\* advances of the clock offered under SpecLog and SpecMd
MaxTicks == 1
\* rows of the pre-existing workout_log drawn by SpecStats
MaxHist == 3
\* rows of the workout_log of an older schema drawn by SpecSchema
MaxLegacyRows == 2
\* rows of workout_log, drawn and logged, under SpecAppend
MaxAppendLog == 2
\* rows of the pre-existing workout_log drawn by SpecMdHist
MaxMdHist == 3
\* rows of the pre-existing workout_log drawn by SpecWindow
MaxWindowHist == 3
\* sets logged by main.py under SpecLegacy, after the rows of the older schema
MaxLegacyLog == 2

-----------------------------------------------------------------------------
(* Generic helpers *)

Days(n) == n * 86400

NULL == -1

Some(v) == <<v>>
None == <<>>

Range(s) == {s[i] : i \in 1..Len(s)}

Max(S) == CHOOSE x \in S : \A y \in S : y <= x
Min(S) == CHOOSE x \in S : \A y \in S : x <= y

-----------------------------------------------------------------------------
(* Texts *)

Space == " "

\* ord() of the characters the model's texts use
Code(c) ==
    CASE c = " " -> 32
      [] c = "-" -> 45
      [] c = "." -> 46
      [] c \in {"0","1","2","3","4","5","6","7","8","9"} ->
           48 + (CHOOSE d \in 0..9 : <<"0","1","2","3","4","5","6","7","8","9">>[d + 1] = c)
      [] c = "A" -> 65
      [] c = "a" -> 97
      [] OTHER -> 127

\* str.strip(): leading and trailing whitespace removed
RECURSIVE LStrip(_)
LStrip(t) == IF t # <<>> /\ Head(t) = Space THEN LStrip(Tail(t)) ELSE t

RECURSIVE RStrip(_)
RStrip(t) ==
    IF t # <<>> /\ t[Len(t)] = Space THEN RStrip(SubSeq(t, 1, Len(t) - 1)) ELSE t

\* strip() leaving the text as it was typed
Strip_none(t) == t

Strip(t) == RStrip(LStrip(t))

\* t < u in SQLite's BINARY collation (bytewise)
RECURSIVE TextLess(_, _)
TextLess(t, u) ==
    IF u = <<>> THEN FALSE
    ELSE IF t = <<>> THEN TRUE
    ELSE IF Code(Head(t)) # Code(Head(u)) THEN Code(Head(t)) < Code(Head(u))
    ELSE TextLess(Tail(t), Tail(u))

IsDigit(c) == c \in {"0","1","2","3","4","5","6","7","8","9"}

RECURSIVE DigitsValue(_, _)
DigitsValue(t, acc) ==
    IF t = <<>> THEN acc ELSE DigitsValue(Tail(t), 10 * acc + (Code(Head(t)) - 48))

\* int(text): Some(value), or None for ValueError
ParseInt(t) ==
    LET body == IF t # <<>> /\ Head(t) = "-" THEN Tail(t) ELSE t
        neg  == t # <<>> /\ Head(t) = "-"
    IN  IF body = <<>> \/ \E i \in 1..Len(body) : ~IsDigit(body[i]) THEN None
        ELSE Some(IF neg THEN 0 - DigitsValue(body, 0) ELSE DigitsValue(body, 0))

\* float(text) for texts without a fractional part: Some(value), or None for ValueError
ParseFloat(t) ==
    IF t # <<>> /\ t[Len(t)] = "." /\ Len(t) > 1 /\ IsDigit(t[Len(t) - 1])
    THEN ParseInt(SubSeq(t, 1, Len(t) - 1))
    ELSE ParseInt(t)

-----------------------------------------------------------------------------
(* The store *)

TableNames == {"exercises", "routines", "exercise_routine", "workout_log"}

NameColumns == {"id", "name"}
AssocColumns == {"exercise_id", "routine_id"}
LogColumns == {"id", "exercise_id", "routine_id", "date", "weight", "reps", "sets"}

NoTable == [exists |-> FALSE, columns |-> {}, rows |-> <<>>]

NewTable(cols) == [exists |-> TRUE, columns |-> cols, rows |-> <<>>]

\* the database file before it is first opened
EmptyStore == [t \in TableNames |-> NoTable]

\* CREATE TABLE over a table that exists: the table is made anew
CreateAnew(d, t, cols) == [d EXCEPT ![t] = NewTable(cols)]

\* CREATE TABLE IF NOT EXISTS
CreateIfNotExists(d, t, cols) ==
    IF d[t].exists THEN d ELSE [d EXCEPT ![t] = NewTable(cols)]

\* init_db(): the four CREATE TABLE IF NOT EXISTS statements
init_db(d) ==
    LET d1 == CreateIfNotExists(d, "exercises", NameColumns)
        d2 == CreateIfNotExists(d1, "routines", NameColumns)
        d3 == CreateIfNotExists(d2, "exercise_routine", AssocColumns)
    IN  CreateIfNotExists(d3, "workout_log", LogColumns)

\* the default of the sets column the upgrade adds
DefaultSets == 1

\* ADD COLUMN that leaves the existing rows without the default
AddColumn_no_backfill(d, t, col, v) ==
    [d EXCEPT ![t] = [exists  |-> TRUE,
                      columns |-> @.columns \cup {col},
                      rows    |-> [i \in 1..Len(@.rows) |-> (col :> NULL) @@ @.rows[i]]]]

\* ALTER TABLE t ADD COLUMN col [DEFAULT v]: every existing row reads v in col
AddColumn(d, t, col, v) ==
    [d EXCEPT ![t] = [exists  |-> TRUE,
                      columns |-> @.columns \cup {col},
                      rows    |-> [i \in 1..Len(@.rows) |-> (col :> v) @@ @.rows[i]]]]

\* check_and_update_db_schema(): PRAGMA table_info, then the missing columns;
\* on a missing table the first ALTER raises, is logged, and nothing changes
check_and_update_db_schema(d) ==
    LET columns == d["workout_log"].columns
        d1 == IF "routine_id" \notin columns
              THEN AddColumn(d, "workout_log", "routine_id", NULL) ELSE d
        d2 == IF "sets" \notin columns
              THEN AddColumn(d1, "workout_log", "sets", DefaultSets) ELSE d1
    IN  IF d["workout_log"].exists THEN d2 ELSE d

\* AUTOINCREMENT: one more than the largest id the table has ever held (no row
\* is ever deleted, so the largest id present)
NextId(rows) == IF rows = <<>> THEN 1 ELSE Max({rows[i]["id"] : i \in 1..Len(rows)}) + 1

LowerText(t) == [i \in 1..Len(t) |-> IF t[i] = "A" THEN "a" ELSE t[i]]

\* the lookup with names compared without regard to case
_get_id_from_name_nocase(d, table_name, item_name) ==
    LET result == SelectSeq(d[table_name].rows,
                            LAMBDA r : LowerText(r["name"]) = LowerText(item_name))
    IN  IF result # <<>> THEN Some(result[1]["id"]) ELSE None

\* _fetch_from_db("SELECT id FROM table WHERE name = ?") in _get_id_from_name
_get_id_from_name(d, table_name, item_name) ==
    LET result == SelectSeq(d[table_name].rows, LAMBDA r : r["name"] = item_name)
    IN  IF result # <<>> THEN Some(result[1]["id"]) ELSE None

\* ORDER BY name: insertion of the text x after the texts not greater
RECURSIVE InsertText(_, _)
InsertText(s, x) ==
    IF s = <<>> THEN <<x>>
    ELSE IF TextLess(x, Head(s)) THEN <<x>> \o s
    ELSE <<Head(s)>> \o InsertText(Tail(s), x)

RECURSIVE SortTexts(_)
SortTexts(s) ==
    IF s = <<>> THEN <<>>
    ELSE InsertText(SortTexts(SubSeq(s, 1, Len(s) - 1)), s[Len(s)])

\* "SELECT name FROM <table> ORDER BY name"
NamesOrdered(d, table_name) ==
    SortTexts([i \in 1..Len(d[table_name].rows) |-> d[table_name].rows[i]["name"]])

-----------------------------------------------------------------------------
(* main.py: loading the log and the analytics *)

\* datetime.strptime(text, "%Y-%m-%d %H:%M:%S"), then "%Y-%m-%d": Some(seconds),
\* or None for a text in neither format (stored as a negative number)
ParseDate(text) == IF text >= 0 THEN Some(text) ELSE None

\* list.sort(key=lambda x: x['date']): stable
RECURSIVE InsertByDate(_, _)
InsertByDate(s, x) ==
    IF s = <<>> THEN <<x>>
    ELSE IF x["date"] < Head(s)["date"] THEN <<x>> \o s
    ELSE <<Head(s)>> \o InsertByDate(Tail(s), x)

\* the list left in the order it was read
SortByDate_none(s) == s

RECURSIVE SortByDate(_)
SortByDate(s) ==
    IF s = <<>> THEN <<>>
    ELSE InsertByDate(SortByDate(SubSeq(s, 1, Len(s) - 1)), s[Len(s)])

\* load_workout_data() without the sort by date
load_workout_data_unsorted(d) ==
    LET t == d["workout_log"]
        rows == IF t.exists /\ LogColumns \subseteq t.columns THEN t.rows ELSE <<>>
    IN  SelectSeq(rows, LAMBDA r : ParseDate(r["date"]) # None)

\* load_workout_data(): the rows with a readable date, sorted by date; the
\* SELECT names the seven columns and fails (empty result) when one is missing
load_workout_data(d) ==
    LET t == d["workout_log"]
        rows == IF t.exists /\ LogColumns \subseteq t.columns THEN t.rows ELSE <<>>
        readable == SelectSeq(rows, LAMBDA r : ParseDate(r["date"]) # None)
    IN  SortByDate(readable)

Metrics == {"weight", "reps", "sets"}
Periods == {"1m", "3m", "6m"}

\* the 30-day and the 90-day column exchanged
PeriodDays_swapped(p) == CASE p = "1m" -> 90 [] p = "3m" -> 30 [] p = "6m" -> 180

\* the days passed to get_change for each column of the change table
PeriodDays(p) == CASE p = "1m" -> 30 [] p = "3m" -> 90 [] p = "6m" -> 180

DefaultExerciseText == <<"Select Exercise">>
DefaultRoutineText == <<"Select Routine">>

NA == <<"N/A">>
NoHistory == <<"No history for this combination.">>

\* clear_stats_display(message)
clear_stats_display(message) ==
    [last   |-> <<"Last Recorded: N/A">>,
     change |-> [m \in Metrics |-> [p \in Periods |-> message]]]

\* get_change with the first value taken from the whole history of the pair
get_change_from_start(filtered_data, latest_date, metric, days) ==
    LET start_date == latest_date - Days(days)
        period_data == SelectSeq(filtered_data, LAMBDA e : e["date"] >= start_date)
    IN  IF Len(period_data) < 2 THEN None
        ELSE Some(period_data[Len(period_data)][metric] - filtered_data[1][metric])

\* get_change answering 0 where it has fewer than two entries
get_change_zero(filtered_data, latest_date, metric, days) ==
    LET start_date == latest_date - Days(days)
        period_data == SelectSeq(filtered_data, LAMBDA e : e["date"] >= start_date)
    IN  IF Len(period_data) < 2 THEN Some(0)
        ELSE Some(period_data[Len(period_data)][metric] - period_data[1][metric])

\* get_change over the whole history of the pair, the window not applied
get_change_no_window(filtered_data, latest_date, metric, days) ==
    IF Len(filtered_data) < 2 THEN None
    ELSE Some(filtered_data[Len(filtered_data)][metric] - filtered_data[1][metric])

\* get_change with the entry dated exactly start_date left out of the period
get_change_exclusive(filtered_data, latest_date, metric, days) ==
    LET start_date == latest_date - Days(days)
        period_data == SelectSeq(filtered_data, LAMBDA e : e["date"] > start_date)
    IN  IF Len(period_data) < 2 THEN None
        ELSE LET first_val == period_data[1][metric]
                 last_val == period_data[Len(period_data)][metric]
             IN  IF first_val \in Int /\ last_val \in Int
                 THEN Some(last_val - first_val) ELSE None

\* get_change(metric, days) of calculate_summary_stats, over the sorted
\* filtered_data and its latest_date: Some(change) or None
get_change(filtered_data, latest_date, metric, days) ==
    LET start_date == latest_date - Days(days)
        period_data == SelectSeq(filtered_data, LAMBDA e : e["date"] >= start_date)
    IN  IF Len(period_data) < 2 THEN None
        ELSE LET first_val == period_data[1][metric]
                 last_val == period_data[Len(period_data)][metric]
             IN  IF first_val \in Int /\ last_val \in Int
                 THEN Some(last_val - first_val) ELSE None

\* f"{v:+.1f} lbs" and f"{v:+.0f}" of a whole number: the sign is always written
FormatChange(metric, change) ==
    IF change = None THEN NA
    ELSE LET v == change[1]
             sign == IF v < 0 THEN "-" ELSE "+"
             abs == IF v < 0 THEN 0 - v ELSE v
         IN  IF metric = "weight" THEN <<sign, abs, ".0", " lbs">> ELSE <<sign, abs>>

\* the filter taking an entry without a routine as an entry of every routine
FilteredData_null_any(dat, exercise_id, routine_id) ==
    SelectSeq(dat, LAMBDA e : /\ e["exercise_id"] = exercise_id
                              /\ (e["routine_id"] = routine_id \/ e["routine_id"] = NULL))

\* the entries of self.data of one exercise and one routine
FilteredData(dat, exercise_id, routine_id) ==
    SelectSeq(dat, LAMBDA e : e["exercise_id"] = exercise_id /\ e["routine_id"] = routine_id)

\* the labels with the last workout read from filtered_data[0]
StatsLabels_first(filtered) ==
    LET filtered_data == SortByDate(filtered)
        last_entry == filtered_data[1]
        latest_date == Max({filtered_data[i]["date"] : i \in 1..Len(filtered_data)})
    IN  [last   |-> <<"Last Recorded", last_entry["date"] \div 86400,
                      last_entry["sets"], last_entry["reps"], last_entry["weight"]>>,
         change |-> [m \in Metrics |-> [p \in Periods |->
                        FormatChange(m, get_change(filtered_data, latest_date, m, PeriodDays(p)))]]]

\* the labels calculate_summary_stats writes for filtered_data (not empty)
StatsLabels(filtered) ==
    LET filtered_data == SortByDate(filtered)
        last_entry == filtered_data[Len(filtered_data)]
        latest_date == Max({filtered_data[i]["date"] : i \in 1..Len(filtered_data)})
    IN  [last   |-> <<"Last Recorded", last_entry["date"] \div 86400,
                      last_entry["sets"], last_entry["reps"], last_entry["weight"]>>,
         change |-> [m \in Metrics |-> [p \in Periods |->
                        FormatChange(m, get_change(filtered_data, latest_date, m, PeriodDays(p)))]]]

\* calculate_summary_stats(): the labels it leaves, from self.data, the two
\* spinner texts and the store
calculate_summary_stats(dat, exercise_name, routine_name, d) ==
    IF dat = <<>> THEN clear_stats_display(NA)
    ELSE IF exercise_name = <<>> \/ exercise_name = DefaultExerciseText
            \/ routine_name = <<>> \/ routine_name = DefaultRoutineText
    THEN clear_stats_display(NA)
    ELSE LET exercise_id == _get_id_from_name(d, "exercises", exercise_name)
             routine_id == _get_id_from_name(d, "routines", routine_name)
         IN  IF exercise_id = None \/ routine_id = None THEN clear_stats_display(NA)
             ELSE LET filtered == FilteredData(dat, exercise_id[1], routine_id[1])
                  IN  IF filtered = <<>> THEN clear_stats_display(NoHistory)
                      ELSE StatsLabels(filtered)

-----------------------------------------------------------------------------
(* main.py: widgets *)

Spinner(values, text) == [values |-> values, text |-> text]

\* load_exercises() / load_routines() on one spinner: the values are replaced and
\* a text that is the default or no longer a value becomes the first value
LoadSpinner(spinner, names, default_text) ==
    Spinner(names,
            IF spinner.text = default_text \/ spinner.text \notin Range(names)
            THEN (IF names = <<>> THEN default_text ELSE names[1])
            ELSE spinner.text)

\* update_status(message, error)
Status(kind, arg, error) == [kind |-> kind, arg |-> arg, error |-> error]

Ready == Status("Ready", <<>>, FALSE)

\* the texts the model's user types as exercise names and as routine names
ExerciseTexts == { <<" ">>, <<"a">>, <<" ", "a", " ">>, <<"A">> }
RoutineTexts == { <<>>, <<"a">>, <<"a", " ">> }

\* the texts the model's user types into weight_input, reps_input, sets_input
SetTexts ==
    { <<<<"1","3","5">>, <<"1","0">>, <<"3">>>>,
      <<<<"0">>,         <<"8">>,     <<"3">>>>,
      <<<<"1","3","5">>, <<"0">>,     <<"3">>>>,
      <<<<"1","3","5">>, <<"8">>,     <<"-","1">>>>,
      <<<<".">>,         <<"8">>,     <<"3">>>>,
      <<<<" ">>,         <<"8">>,     <<"3">>>>,
      <<<<"1","3","5">>, <<>>,        <<"3">>>>,
      <<<<"1","3","5">>, <<"8">>,     <<>>>> }

\* the two sets of the repeated-logging scenario, and a rejected one
LongLogSetTexts ==
    { <<<<"1","3","5">>, <<"1","0">>, <<"3">>>>,
      <<<<"1","4","5">>, <<"8">>,     <<"3">>>>,
      <<<<"1","4","5">>, <<"0">>,     <<"3">>>> }

-----------------------------------------------------------------------------
(* main.py: _execute_db *)

\* a table without the UNIQUE constraint
NameTaken_never(d, table_name, name) == FALSE

\* a table without the PRIMARY KEY constraint
PairTaken_never(d, exercise_id, routine_id) == FALSE

\* the UNIQUE constraint on name
NameTaken(d, table_name, name) ==
    \E i \in 1..Len(d[table_name].rows) : d[table_name].rows[i]["name"] = name

\* the PRIMARY KEY(exercise_id, routine_id) constraint
PairTaken(d, exercise_id, routine_id) ==
    \E i \in 1..Len(d["exercise_routine"].rows) :
        /\ d["exercise_routine"].rows[i]["exercise_id"] = exercise_id
        /\ d["exercise_routine"].rows[i]["routine_id"] = routine_id

\* _execute_db treating an IntegrityError as any other sqlite3.Error
ExecOutcome_generic(fault, violates) ==
    IF fault \/ violates THEN "fault" ELSE "ok"

\* how cursor.execute of an INSERT ends in _execute_db: a storage fault
\* (sqlite3.Error other than IntegrityError: rolled back, None returned), an
\* IntegrityError (re-raised), or a committed row
ExecOutcome(fault, violates) ==
    IF fault THEN "fault" ELSE IF violates THEN "integrity" ELSE "ok"

AppendRow(d, table_name, row) ==
    [d EXCEPT ![table_name].rows = Append(@, row)]

\* "INSERT INTO <table> (name) VALUES (?)"
InsertName(d, table_name, name) ==
    AppendRow(d, table_name, [id |-> NextId(d[table_name].rows), name |-> name])

PairLess(p, q) ==
    \/ p["exercise_id"] < q["exercise_id"]
    \/ p["exercise_id"] = q["exercise_id"] /\ p["routine_id"] < q["routine_id"]

RECURSIVE InsertPair(_, _)
InsertPair(s, x) ==
    IF s = <<>> THEN <<x>>
    ELSE IF PairLess(x, Head(s)) THEN <<x>> \o s
    ELSE <<Head(s)>> \o InsertPair(Tail(s), x)

\* the INSERT with the two ids bound to each other's column
InsertAssociation_swapped(d, exercise_id, routine_id) ==
    [d EXCEPT !["exercise_routine"].rows =
        InsertPair(@, [exercise_id |-> routine_id, routine_id |-> exercise_id])]

\* "INSERT INTO exercise_routine (exercise_id, routine_id) VALUES (?, ?)": the
\* rows are kept in the order of the primary key index
InsertAssociation(d, exercise_id, routine_id) ==
    [d EXCEPT !["exercise_routine"].rows =
        InsertPair(@, [exercise_id |-> exercise_id, routine_id |-> routine_id])]

\* the INSERT replacing the rows the exercise already has under the routine
InsertLog_replace(d, exercise_id, routine_id, date, weight, reps, sets) ==
    [d EXCEPT !["workout_log"].rows =
        Append(SelectSeq(@, LAMBDA r : ~(r["exercise_id"] = exercise_id /\ r["routine_id"] = routine_id)),
               [id |-> NextId(d["workout_log"].rows), exercise_id |-> exercise_id,
                routine_id |-> routine_id, date |-> date, weight |-> weight,
                reps |-> reps, sets |-> sets])]

\* the INSERT also linking the exercise to the routine it was logged under
InsertLog_linking(d, exercise_id, routine_id, date, weight, reps, sets) ==
    LET d2 == AppendRow(d, "workout_log",
                        [id |-> NextId(d["workout_log"].rows), exercise_id |-> exercise_id,
                         routine_id |-> routine_id, date |-> date, weight |-> weight,
                         reps |-> reps, sets |-> sets])
    IN  IF PairTaken(d, exercise_id, routine_id) THEN d2
        ELSE InsertAssociation(d2, exercise_id, routine_id)

\* "INSERT INTO workout_log (exercise_id, routine_id, date, weight, reps, sets)"
InsertLog(d, exercise_id, routine_id, date, weight, reps, sets) ==
    AppendRow(d, "workout_log",
              [id |-> NextId(d["workout_log"].rows), exercise_id |-> exercise_id,
               routine_id |-> routine_id, date |-> date, weight |-> weight,
               reps |-> reps, sets |-> sets])

-----------------------------------------------------------------------------
(* main.py: start-up *)

InitialLabels == clear_stats_display(NA)

\* the state after WeightTracker.__init__, before the scheduled post_init
AppOff ==
    /\ boot = "off"
    /\ data = <<>>
    /\ exercise_spinner = Spinner(<<>>, DefaultExerciseText)
    /\ routine_spinner = Spinner(<<>>, DefaultRoutineText)
    /\ status = Ready
    /\ labels = InitialLabels

\* main_md.py before GymTrackerApp.build()
MdOff == [started |-> FALSE, screen |-> "home", routine_cards |-> <<>>,
          current_routine_id |-> 0, cards |-> <<>>, snackbar |-> <<>>, dialog |-> <<>>]

Init ==
    /\ db = EmptyStore
    /\ now = 0
    /\ AppOff
    /\ md = MdOff

\* post_init: init_db()
InitDb ==
    /\ boot = "off"
    /\ db' = init_db(db)
    /\ boot' = "inited"
    /\ UNCHANGED <<now, data, exercise_spinner, routine_spinner, status, labels, md>>

\* post_init: check_and_update_db_schema()
CheckAndUpdateDbSchema ==
    /\ boot = "inited"
    /\ db' = check_and_update_db_schema(db)
    /\ boot' = "checked"
    /\ UNCHANGED <<now, data, exercise_spinner, routine_spinner, status, labels, md>>

\* post_init: load_exercises(), load_routines(), load_workout_data(),
\* calculate_summary_stats(), then each spinner's text set to its first value
\* (on_text recalculates)
PostInitLoad ==
    /\ boot = "checked"
    /\ LET exercise_names == NamesOrdered(db, "exercises")
           routine_names == NamesOrdered(db, "routines")
           es == LoadSpinner(exercise_spinner, exercise_names, DefaultExerciseText)
           rs == LoadSpinner(routine_spinner, routine_names, DefaultRoutineText)
           es2 == IF es.values # <<>> THEN Spinner(es.values, es.values[1]) ELSE es
           rs2 == IF rs.values # <<>> THEN Spinner(rs.values, rs.values[1]) ELSE rs
       IN  /\ exercise_spinner' = es2
           /\ routine_spinner' = rs2
           /\ data' = load_workout_data(db)
           /\ labels' = calculate_summary_stats(data', es2.text, rs2.text, db)
    /\ boot' = "ready"
    /\ UNCHANGED <<db, now, status, md>>

\* the app is closed and launched again: a new WeightTracker over the same file
Restart ==
    /\ boot = "ready"
    /\ boot' = "off"
    /\ data' = <<>>
    /\ exercise_spinner' = Spinner(<<>>, DefaultExerciseText)
    /\ routine_spinner' = Spinner(<<>>, DefaultRoutineText)
    /\ status' = Ready
    /\ labels' = InitialLabels
    /\ UNCHANGED <<db, now, md>>

\* the time the model lets pass between two handlers
ClockStep == Days(35)

\* the wall clock advances between two handlers
Tick ==
    /\ now < MaxTicks * ClockStep
    /\ now' = now + ClockStep
    /\ UNCHANGED <<db, boot, data, exercise_spinner, routine_spinner, status, labels, md>>

\* datetime.now() is the local wall clock: an hour is repeated when daylight
\* saving time ends, and the device clock can be corrected or set by its user
ClockSetBack ==
    /\ now > 0 /\ now % ClockStep = 0
    /\ now' = now - 3600
    /\ UNCHANGED <<db, boot, data, exercise_spinner, routine_spinner, status, labels, md>>

-----------------------------------------------------------------------------
(* main.py: handlers *)

\* exercise_spinner without its on_text binding: the labels stay as they were
SelectExercise_stale(name) ==
    /\ boot = "ready"
    /\ name \in Range(exercise_spinner.values)
    /\ name # exercise_spinner.text
    /\ exercise_spinner' = Spinner(exercise_spinner.values, name)
    /\ UNCHANGED <<db, now, boot, data, routine_spinner, status, md, labels>>

\* the user picks a value of exercise_spinner: on_text runs calculate_summary_stats
SelectExercise(name) ==
    /\ boot = "ready"
    /\ name \in Range(exercise_spinner.values)
    /\ name # exercise_spinner.text
    /\ exercise_spinner' = Spinner(exercise_spinner.values, name)
    /\ labels' = calculate_summary_stats(data, name, routine_spinner.text, db)
    /\ UNCHANGED <<db, now, boot, data, routine_spinner, status, md>>

\* the user picks a value of routine_spinner
SelectRoutine(name) ==
    /\ boot = "ready"
    /\ name \in Range(routine_spinner.values)
    /\ name # routine_spinner.text
    /\ routine_spinner' = Spinner(routine_spinner.values, name)
    /\ labels' = calculate_summary_stats(data, exercise_spinner.text, name, db)
    /\ UNCHANGED <<db, now, boot, data, exercise_spinner, status, md>>

\* save_new_exercise() with exercise_name_input.text = text
SaveNewExercise(text, fault) ==
    /\ boot = "ready"
    /\ LET exercise_name == Strip(text)
           outcome == ExecOutcome(fault, NameTaken(db, "exercises", exercise_name))
           d2 == IF outcome = "ok" THEN InsertName(db, "exercises", exercise_name) ELSE db
           es == LoadSpinner(exercise_spinner, NamesOrdered(d2, "exercises"), DefaultExerciseText)
       IN  IF exercise_name = <<>>
           THEN /\ status' = Status("Exercise name cannot be empty!", <<>>, TRUE)
                /\ UNCHANGED <<db, exercise_spinner, labels>>
           ELSE IF outcome = "integrity"
           THEN /\ status' = Status("Exercise already exists.", exercise_name, TRUE)
                /\ UNCHANGED <<db, exercise_spinner, labels>>
           ELSE /\ db' = d2
                /\ exercise_spinner' = es
                /\ labels' = IF es.text # exercise_spinner.text
                             THEN calculate_summary_stats(data, es.text, routine_spinner.text, d2)
                             ELSE labels
                /\ status' = Status("Exercise added successfully.", exercise_name, FALSE)
    /\ UNCHANGED <<now, boot, data, routine_spinner, md>>

\* save_new_routine() with routine_name_input.text = text
SaveNewRoutine(text, fault) ==
    /\ boot = "ready"
    /\ LET routine_name == Strip(text)
           outcome == ExecOutcome(fault, NameTaken(db, "routines", routine_name))
           d2 == IF outcome = "ok" THEN InsertName(db, "routines", routine_name) ELSE db
           rs == LoadSpinner(routine_spinner, NamesOrdered(d2, "routines"), DefaultRoutineText)
       IN  IF routine_name = <<>>
           THEN /\ status' = Status("Routine name cannot be empty!", <<>>, TRUE)
                /\ UNCHANGED <<db, routine_spinner, labels>>
           ELSE IF outcome = "integrity"
           THEN /\ status' = Status("Routine already exists.", routine_name, TRUE)
                /\ UNCHANGED <<db, routine_spinner, labels>>
           ELSE /\ db' = d2
                /\ routine_spinner' = rs
                /\ labels' = IF rs.text # routine_spinner.text
                             THEN calculate_summary_stats(data, exercise_spinner.text, rs.text, d2)
                             ELSE labels
                /\ status' = Status("Routine added successfully.", routine_name, FALSE)
    /\ UNCHANGED <<now, boot, data, exercise_spinner, md>>

\* the texts exercise_spinner_associate / routine_spinner_associate can show:
\* load_exercises() and load_routines() give them the values of the main spinners
AssociateTexts(spinner, default_text) ==
    IF spinner.values = <<>> THEN {default_text} ELSE Range(spinner.values)

\* associate_exercise_with_routine() with the two association spinners showing
\* exercise_name and routine_name
AssociateExerciseWithRoutine(exercise_name, routine_name, fault) ==
    /\ boot = "ready"
    /\ exercise_name \in AssociateTexts(exercise_spinner, DefaultExerciseText)
    /\ routine_name \in AssociateTexts(routine_spinner, DefaultRoutineText)
    /\ LET exercise_id == _get_id_from_name(db, "exercises", exercise_name)
           routine_id == _get_id_from_name(db, "routines", routine_name)
       IN  IF exercise_name = <<>> \/ exercise_name = DefaultExerciseText
           THEN /\ status' = Status("Please select an exercise to associate.", <<>>, TRUE)
                /\ db' = db
           ELSE IF routine_name = <<>> \/ routine_name = DefaultRoutineText
           THEN /\ status' = Status("Please select a routine to associate.", <<>>, TRUE)
                /\ db' = db
           ELSE IF exercise_id = None \/ routine_id = None
           THEN /\ status' = Status("Selected exercise or routine not found.", <<>>, TRUE)
                /\ db' = db
           ELSE LET outcome == ExecOutcome(fault, PairTaken(db, exercise_id[1], routine_id[1]))
                IN  IF outcome = "integrity"
                    THEN /\ status' = Status("already associated", <<exercise_name, routine_name>>, TRUE)
                         /\ db' = db
                    ELSE /\ db' = IF outcome = "ok"
                                  THEN InsertAssociation(db, exercise_id[1], routine_id[1])
                                  ELSE db
                         /\ status' = Status("Associated", <<exercise_name, routine_name>>, FALSE)
    /\ UNCHANGED <<now, boot, data, exercise_spinner, routine_spinner, labels, md>>

\* save_data() with the three input texts
SaveData(weight_input, reps_input, sets_input, fault) ==
    /\ boot = "ready"
    /\ LET exercise_name == Strip(exercise_spinner.text)
           routine_name == Strip(routine_spinner.text)
           weight == ParseFloat(Strip(weight_input))
           reps == ParseInt(Strip(reps_input))
           sets == ParseInt(Strip(sets_input))
           exercise_id == _get_id_from_name(db, "exercises", exercise_name)
           routine_id == _get_id_from_name(db, "routines", routine_name)
           reject(kind) == /\ status' = Status(kind, <<>>, TRUE)
                           /\ UNCHANGED <<db, data, labels>>
       IN  IF exercise_name = <<>> \/ exercise_name = DefaultExerciseText
           THEN reject("Please select an exercise.")
           ELSE IF routine_name = <<>> \/ routine_name = DefaultRoutineText
           THEN reject("Please select a routine.")
           ELSE IF Strip(weight_input) = <<>> THEN reject("Weight cannot be empty.")
           ELSE IF Strip(reps_input) = <<>> THEN reject("Reps cannot be empty.")
           ELSE IF Strip(sets_input) = <<>> THEN reject("Sets cannot be empty.")
           ELSE IF weight = None \/ reps = None \/ sets = None THEN reject("Invalid input")
           ELSE IF weight[1] <= 0 \/ reps[1] <= 0 \/ sets[1] <= 0 THEN reject("Invalid input")
           ELSE IF exercise_id = None THEN reject("Exercise not found in DB.")
           ELSE IF routine_id = None THEN reject("Routine not found in DB.")
           ELSE /\ db' = IF ExecOutcome(fault, FALSE) = "ok"
                         THEN InsertLog(db, exercise_id[1], routine_id[1], now,
                                        weight[1], reps[1], sets[1])
                         ELSE db
                /\ status' = Status("Saved", exercise_name, FALSE)
                /\ data' = load_workout_data(db')
                /\ labels' = calculate_summary_stats(data', exercise_spinner.text,
                                                     routine_spinner.text, db')
    /\ UNCHANGED <<now, boot, exercise_spinner, routine_spinner, md>>

-----------------------------------------------------------------------------
(* main_md.py *)

\* DatabaseManager.init_db(): the four CREATE TABLE IF NOT EXISTS statements, then
\* the missing columns of workout_log
md_init_db(d) ==
    LET d0 == init_db(d)
        columns == d0["workout_log"].columns
        d1 == IF "routine_id" \notin columns
              THEN AddColumn(d0, "workout_log", "routine_id", NULL) ELSE d0
    IN  IF "sets" \notin columns
        THEN AddColumn(d1, "workout_log", "sets", DefaultSets) ELSE d1

\* HomeScreen.load_routines(): "SELECT * FROM routines ORDER BY name", one
\* RoutineCard per row
RECURSIVE InsertByName(_, _)
InsertByName(s, x) ==
    IF s = <<>> THEN <<x>>
    ELSE IF TextLess(x["name"], Head(s)["name"]) THEN <<x>> \o s
    ELSE <<Head(s)>> \o InsertByName(Tail(s), x)

RECURSIVE SortByName(_)
SortByName(s) ==
    IF s = <<>> THEN <<>>
    ELSE InsertByName(SortByName(SubSeq(s, 1, Len(s) - 1)), s[Len(s)])

load_routines(d) == SortByName(d["routines"].rows)

\* the join without its ORDER BY: the rows in the order of the exercises table
ExercisesOfRoutine_unordered(d, routine_id) ==
    SelectSeq(d["exercises"].rows,
              LAMBDA e : \E i \in 1..Len(d["exercise_routine"].rows) :
                  /\ d["exercise_routine"].rows[i]["exercise_id"] = e["id"]
                  /\ d["exercise_routine"].rows[i]["routine_id"] = routine_id)

\* the exercises joined to routine_id through exercise_routine, ORDER BY e.name
ExercisesOfRoutine(d, routine_id) ==
    SortByName(SelectSeq(d["exercises"].rows,
                         LAMBDA e : \E i \in 1..Len(d["exercise_routine"].rows) :
                             /\ d["exercise_routine"].rows[i]["exercise_id"] = e["id"]
                             /\ d["exercise_routine"].rows[i]["routine_id"] = routine_id))

\* load_exercises_for_routine(routine_name): the names of the exercises of the
\* routine, [] for no selection and for a name that is not a routine
load_exercises_for_routine(d, routine_name) ==
    LET routine_id == _get_id_from_name(d, "routines", routine_name)
        results == IF routine_id = None THEN <<>> ELSE ExercisesOfRoutine(d, routine_id[1])
    IN  IF routine_name = <<>> \/ routine_name = DefaultRoutineText THEN <<>>
        ELSE [i \in 1..Len(results) |-> results[i]["name"]]

\* the last log looked up with ORDER BY date ASC
LastLogOf_oldest(d, exercise_id) ==
    LET rows == SelectSeq(d["workout_log"].rows, LAMBDA r : r["exercise_id"] = exercise_id)
        bottom == Min({rows[i]["date"] : i \in 1..Len(rows)})
    IN  IF rows = <<>> THEN None
        ELSE Some(rows[Min({i \in 1..Len(rows) : rows[i]["date"] = bottom})])

\* "SELECT ... FROM workout_log WHERE exercise_id = ? ORDER BY date DESC LIMIT 1":
\* Some(row) or None; among rows of the same date the first scanned is kept
LastLogOf(d, exercise_id) ==
    LET rows == SelectSeq(d["workout_log"].rows, LAMBDA r : r["exercise_id"] = exercise_id)
        top == Max({rows[i]["date"] : i \in 1..Len(rows)})
    IN  IF rows = <<>> THEN None
        ELSE Some(rows[Min({i \in 1..Len(rows) : rows[i]["date"] = top})])

\* ActiveSessionScreen.load_exercises(routine_id, routine_name): the ExerciseCards
load_exercises(d, routine_id) ==
    LET exercises == ExercisesOfRoutine(d, routine_id)
    IN  [i \in 1..Len(exercises) |->
            LET e == exercises[i]
                last_log == LastLogOf(d, e["id"])
            IN  [exercise_id |-> e["id"], exercise_name |-> e["name"],
                 last_log |-> IF last_log = None THEN <<"New Exercise">>
                              ELSE <<"Last", last_log[1]["sets"], last_log[1]["reps"],
                                     last_log[1]["weight"]>>]]

\* GymTrackerApp.build(): init_db(), then the home screen is entered
MdBuild ==
    /\ ~md.started
    /\ db' = md_init_db(db)
    /\ md' = [started |-> TRUE, screen |-> "home", routine_cards |-> load_routines(db'),
              current_routine_id |-> 0, cards |-> <<>>, snackbar |-> <<>>, dialog |-> <<>>]
    /\ UNCHANGED <<now, boot, data, exercise_spinner, routine_spinner, status, labels>>

\* start_session() opening the session without recording its routine
StartSession_no_id(i) ==
    /\ md.started /\ md.screen = "home"
    /\ i \in 1..Len(md.routine_cards)
    /\ md' = [md EXCEPT !.cards = load_exercises(db, md.routine_cards[i]["id"]),
                        !.screen = "session"]
    /\ UNCHANGED <<db, now, boot, data, exercise_spinner, routine_spinner, status, labels>>

\* RoutineCard.on_release -> GymTrackerApp.start_session(routine_id, routine_name)
StartSession(i) ==
    /\ md.started /\ md.screen = "home"
    /\ i \in 1..Len(md.routine_cards)
    /\ md' = [md EXCEPT !.current_routine_id = md.routine_cards[i]["id"],
                        !.cards = load_exercises(db, md.routine_cards[i]["id"]),
                        !.screen = "session"]
    /\ UNCHANGED <<db, now, boot, data, exercise_spinner, routine_spinner, status, labels>>

\* GymTrackerApp.go_home(): HomeScreen.on_enter loads the routines again
GoHome ==
    /\ md.started /\ md.screen = "session"
    /\ md' = [md EXCEPT !.screen = "home", !.routine_cards = load_routines(db)]
    /\ UNCHANGED <<db, now, boot, data, exercise_spinner, routine_spinner, status, labels>>

\* GymTrackerApp.log_set(exercise_id, weight, reps, sets): the store it leaves
log_set(d, exercise_id, routine_id, date, weight, reps, sets, fault) ==
    IF fault THEN d ELSE InsertLog(d, exercise_id, routine_id, date, weight, reps, sets)

\* ExerciseCard.save_set() on the i-th card with the three field texts
SaveSet(i, weight_text, reps_text, sets_text, fault) ==
    /\ md.started /\ md.screen = "session"
    /\ i \in 1..Len(md.cards)
    /\ LET weight == ParseFloat(Strip(weight_text))
           reps == ParseInt(Strip(reps_text))
           sets == ParseInt(Strip(sets_text))
       IN  IF weight_text = <<>> \/ reps_text = <<>> \/ sets_text = <<>>
           THEN /\ md' = [md EXCEPT !.snackbar = <<"Please fill all fields">>]
                /\ db' = db
           ELSE IF weight = None \/ reps = None \/ sets = None
           THEN /\ md' = [md EXCEPT !.snackbar = <<"Invalid number format">>]
                /\ db' = db
           ELSE /\ db' = log_set(db, md.cards[i]["exercise_id"], md.current_routine_id,
                                 now, weight[1], reps[1], sets[1], fault)
                /\ md' = [md EXCEPT !.snackbar = <<"Saved", md.cards[i]["exercise_name"]>>]
    /\ UNCHANGED <<now, boot, data, exercise_spinner, routine_spinner, status, labels>>

\* "SELECT weight, date FROM workout_log WHERE exercise_id = ? ORDER BY date ASC"
TrendData(d, exercise_id) ==
    SortByDate(SelectSeq(d["workout_log"].rows, LAMBDA r : r["exercise_id"] = exercise_id))

\* dt.strftime("%m/%d"): the day of the timestamp
DayLabel(date) == date \div 86400

\* the loop of show_trend_dialog keeping one point per row of each calendar day
\* with the greatest weight of the day
TrendPoints_max_per_day(rows) ==
    LET readable == SelectSeq(rows, LAMBDA r : ParseDate(r["date"]) # None)
        kept == {i \in 1..Len(readable) :
                    \A j \in 1..Len(readable) :
                        (j # i /\ DayLabel(readable[j]["date"]) = DayLabel(readable[i]["date"])) =>
                            \/ readable[j]["weight"] < readable[i]["weight"]
                            \/ (readable[j]["weight"] = readable[i]["weight"] /\ i < j)}
        days == SelectSeq([i \in 1..Len(readable) |-> i], LAMBDA i : i \in kept)
    IN  [k \in 1..Len(days) |-> <<readable[days[k]]["weight"], DayLabel(readable[days[k]]["date"])>>]

\* the loop of show_trend_dialog: one (weight, label) point per row whose date
\* strptime reads, the other rows skipped
TrendPoints(rows) ==
    LET readable == SelectSeq(rows, LAMBDA r : ParseDate(r["date"]) # None)
    IN  [k \in 1..Len(readable) |-> <<readable[k]["weight"], DayLabel(readable[k]["date"])>>]

\* a length as a fraction of the widget's width or height
Fraction(num, den) == [num |-> num, den |-> den]

\* redraw() normalising over the greatest value instead of the range
redraw_from_zero(points_data) ==
    IF Len(points_data) < 2 THEN <<>>
    ELSE LET values == [i \in 1..Len(points_data) |-> points_data[i][1]]
             max_val == Max(Range(values))
         IN  [i \in 1..Len(points_data) |->
                 [x |-> Fraction(i - 1, Len(points_data) - 1),
                  y |-> Fraction(max_val + 8 * values[i], 10 * max_val)]]

\* SimpleGraphWidget.redraw(): nothing is drawn for fewer than two points;
\* otherwise point i (from 0) is drawn at x = i * width / (n - 1) and
\* y = 0.1 * height + (val - min_val) / val_range * 0.8 * height, kept here as the
\* exact fractions of the width and of the height, the widget at the origin
redraw(points_data) ==
    IF Len(points_data) < 2 THEN <<>>
    ELSE LET values == [i \in 1..Len(points_data) |-> points_data[i][1]]
             min_val == Min(Range(values))
             max_val == Max(Range(values))
             val_range == IF max_val # min_val THEN max_val - min_val ELSE 1
         IN  [i \in 1..Len(points_data) |->
                 [x |-> Fraction(i - 1, Len(points_data) - 1),
                  y |-> Fraction(val_range + 8 * (values[i] - min_val), 10 * val_range)]]

\* ExerciseCard.show_trends() on the i-th card -> GymTrackerApp.show_trend_dialog
ShowTrend(i) ==
    /\ md.started /\ md.screen = "session" /\ md.dialog = <<>>
    /\ i \in 1..Len(md.cards)
    /\ LET rows == TrendData(db, md.cards[i]["exercise_id"])
           points == TrendPoints(rows)
           max_weight == IF points # <<>> THEN Max({points[k][1] : k \in 1..Len(points)}) ELSE 0
       IN  IF rows = <<>>
           THEN md' = [md EXCEPT !.snackbar = <<"No data yet", md.cards[i]["exercise_name"]>>]
           ELSE md' = [md EXCEPT !.dialog = <<[exercise_id |-> md.cards[i]["exercise_id"],
                                              title |-> md.cards[i]["exercise_name"],
                                              max_weight |-> max_weight,
                                              entries |-> Len(points),
                                              points_data |-> points,
                                              graph |-> redraw(points)]>>]
    /\ UNCHANGED <<db, now, boot, data, exercise_spinner, routine_spinner, status, labels>>

\* the CLOSE button of the dialog: self.dialog.dismiss()
DismissDialog ==
    /\ md.dialog # <<>>
    /\ md' = [md EXCEPT !.dialog = <<>>]
    /\ UNCHANGED <<db, now, boot, data, exercise_spinner, routine_spinner, status, labels>>

-----------------------------------------------------------------------------
(* The program *)

\* the workout_log holds fewer than n rows
LogRoom(n) == Len(db["workout_log"].rows) < n

StartUp == InitDb \/ CheckAndUpdateDbSchema \/ PostInitLoad \/ Restart

Select ==
    \/ \E name \in Range(exercise_spinner.values) : SelectExercise(name)
    \/ \E name \in Range(routine_spinner.values) : SelectRoutine(name)

Associate ==
    \E e \in AssociateTexts(exercise_spinner, DefaultExerciseText),
       r \in AssociateTexts(routine_spinner, DefaultRoutineText),
       fault \in BOOLEAN : AssociateExerciseWithRoutine(e, r, fault)

\* main.py over a fresh store: the catalogue, the associations and a short log
Next ==
    \/ StartUp
    \/ \E name \in Range(exercise_spinner.values) : SelectExercise(name)
    \/ \E text \in ExerciseTexts, fault \in BOOLEAN : SaveNewExercise(text, fault)
    \/ \E text \in RoutineTexts, fault \in BOOLEAN : SaveNewRoutine(text, fault)
    \/ Associate
    \/ \E t \in SetTexts, fault \in BOOLEAN : LogRoom(MaxLog) /\ SaveData(t[1], t[2], t[3], fault)

Spec == Init /\ [][Next]_vars

\* main.py over a fresh store: one exercise, one routine, sets logged as time passes
NextLog ==
    \/ StartUp
    \/ Tick
    \/ ClockSetBack
    \/ SaveNewExercise(<<"a">>, FALSE)
    \/ SaveNewRoutine(<<"a">>, FALSE)
    \/ Associate
    \/ \E t \in LongLogSetTexts, fault \in BOOLEAN :
          LogRoom(MaxLongLog) /\ SaveData(t[1], t[2], t[3], fault)

SpecLog == Init /\ [][NextLog]_vars

\* the texts the model's user types into the three fields of an ExerciseCard
MdSetTexts ==
    { <<<<"1","3","5">>, <<"1","0">>, <<"3">>>>,
      <<<<"0">>,         <<"0">>,     <<"0">>>>,
      <<<<".">>,         <<"8">>,     <<"3">>>>,
      <<<<>>,            <<"8">>,     <<"3">>>> }

\* a store main.py has filled: two exercises, two routines, some associations
Pairs == { [exercise_id |-> e, routine_id |-> r] : e \in 1..2, r \in 1..2 }

RECURSIVE PairRows(_)
PairRows(S) ==
    IF S = {} THEN <<>>
    ELSE LET p == CHOOSE x \in S : \A y \in S : x = y \/ PairLess(x, y)
         IN  <<p>> \o PairRows(S \ {p})

FilledStore(pairs) ==
    [init_db(EmptyStore) EXCEPT
        !["exercises"].rows = <<[id |-> 1, name |-> <<"a">>], [id |-> 2, name |-> <<"A">>]>>,
        !["routines"].rows = <<[id |-> 1, name |-> <<"a">>], [id |-> 2, name |-> <<"A">>]>>,
        !["exercise_routine"].rows = PairRows(pairs)]

InitMd ==
    /\ db \in {EmptyStore} \cup {FilledStore(pairs) : pairs \in SUBSET Pairs}
    /\ now = 0
    /\ AppOff
    /\ md = MdOff

\* main_md.py over a store main.py has filled
NextMd ==
    \/ MdBuild
    \/ Tick
    \/ \E i \in 1..2 : StartSession(i)
    \/ GoHome
    \/ \E i \in 1..2, t \in MdSetTexts, fault \in BOOLEAN :
          LogRoom(MaxMdLog) /\ SaveSet(i, t[1], t[2], t[3], fault)

SpecMd == InitMd /\ [][NextMd]_vars

-----------------------------------------------------------------------------
(* Stores that exist before the app starts *)

SeqsUpTo(S, n) == UNION { [1..k -> S] : k \in 0..n }

\* the rows numbered by AUTOINCREMENT in the order of insertion
WithIds(rows) == [i \in 1..Len(rows) |-> ("id" :> i) @@ rows[i]]

\* the rows of a log of the current schema that SpecStats draws: the pair (1, 1)
\* at four dates with two sets of values, the pair (2, 2) at the two outer dates
HistRows ==
    { [exercise_id |-> 1, routine_id |-> 1, date |-> t, weight |-> m[1], reps |-> m[2], sets |-> m[3]] :
        t \in {0, Days(5), Days(35), Days(95)}, m \in {<<100, 8, 1>>, <<110, 10, 3>>} }
    \cup
    { [exercise_id |-> 2, routine_id |-> 2, date |-> t, weight |-> 120, reps |-> 5, sets |-> 2] :
        t \in {0, Days(95)} }

InitStats ==
    /\ db \in { [FilledStore({}) EXCEPT !["workout_log"].rows = WithIds(rows)] :
                  rows \in SeqsUpTo(HistRows, MaxHist) }
    /\ now = Days(95)
    /\ AppOff
    /\ md = MdOff

\* main.py started over a store that holds a history: the analytics
NextStats == StartUp \/ Select

SpecStats == InitStats /\ [][NextStats]_vars

\* the columns of workout_log under the older schemas: no routine_id or no sets
LegacyLogColumns ==
    { LogColumns \ {"routine_id", "sets"}, LogColumns \ {"sets"}, LogColumns \ {"routine_id"} }

LegacyRows(columns) ==
    { [c \in columns \ {"id"} |->
          CASE c = "exercise_id" -> e [] c = "routine_id" -> 1 [] c = "date" -> t
            [] c = "weight" -> w [] c = "reps" -> 8 [] c = "sets" -> 3] :
        e \in 1..2, t \in {0, Days(35)}, w \in {100, 110} }

\* a store written under an older schema: the exercises, the routines when the
\* log names them, and a log without some of today's columns
LegacyStore(columns, rows) ==
    [EmptyStore EXCEPT
        !["exercises"] = [exists |-> TRUE, columns |-> NameColumns,
                          rows |-> <<[id |-> 1, name |-> <<"a">>], [id |-> 2, name |-> <<"A">>]>>],
        !["routines"] = IF "routine_id" \in columns
                        THEN [exists |-> TRUE, columns |-> NameColumns,
                              rows |-> <<[id |-> 1, name |-> <<"a">>]>>]
                        ELSE NoTable,
        !["workout_log"] = [exists |-> TRUE, columns |-> columns, rows |-> WithIds(rows)]]

InitSchema ==
    /\ db \in {EmptyStore} \cup
              UNION { { LegacyStore(columns, rows) :
                          rows \in SeqsUpTo(LegacyRows(columns), MaxLegacyRows) } :
                      columns \in LegacyLogColumns }
    /\ now = Days(35)
    /\ AppOff
    /\ md = MdOff

\* either app started, and started again, over a store of an older schema
NextSchema == StartUp \/ MdBuild

SpecSchema == InitSchema /\ [][NextSchema]_vars

\* a store of any age with no row or one row in workout_log
InitAppend ==
    /\ db \in {EmptyStore} \cup
              UNION { { LegacyStore(columns, rows) :
                          rows \in SeqsUpTo({r \in LegacyRows(columns) :
                                                r["exercise_id"] = 1 /\ r["date"] = 0 /\ r["weight"] = 100}, 1) } :
                      columns \in LegacyLogColumns \cup {LogColumns} }
    /\ now = Days(35)
    /\ AppOff
    /\ md = MdOff

\* both apps over such a store: start-up and upgrade, creates, links and sets
\* logged by either app
NextAppend ==
    \/ InitDb \/ CheckAndUpdateDbSchema \/ PostInitLoad
    \/ MdBuild
    \/ \E name \in Range(exercise_spinner.values) : SelectExercise(name)
    \/ SaveNewExercise(<<"a">>, FALSE)
    \/ SaveNewRoutine(<<"a">>, FALSE)
    \/ AssociateExerciseWithRoutine(<<"a">>, <<"a">>, FALSE)
    \/ \E t \in LongLogSetTexts, fault \in BOOLEAN :
          LogRoom(MaxAppendLog) /\ SaveData(t[1], t[2], t[3], fault)
    \/ StartSession(1)
    \/ GoHome
    \/ \E t \in MdSetTexts, fault \in BOOLEAN :
          LogRoom(MaxAppendLog) /\ SaveSet(1, t[1], t[2], t[3], fault)

SpecAppend == InitAppend /\ [][NextAppend]_vars

\* the rows of a log that SpecMdHist draws: exercise 1 logged under both routines,
\* twice on day 0, twice on day 35 and once with a date strptime cannot read,
\* exercise 2 logged once
MdHistRows ==
    { [exercise_id |-> 1, routine_id |-> 1, date |-> 0,        weight |-> 50,  reps |-> 10, sets |-> 3],
      [exercise_id |-> 1, routine_id |-> 2, date |-> 3600,     weight |-> 100, reps |-> 8,  sets |-> 3],
      [exercise_id |-> 1, routine_id |-> 1, date |-> Days(35), weight |-> 75,  reps |-> 8,  sets |-> 2],
      [exercise_id |-> 1, routine_id |-> 2, date |-> Days(35), weight |-> 50,  reps |-> 5,  sets |-> 1],
      [exercise_id |-> 1, routine_id |-> 1, date |-> NULL,     weight |-> 200, reps |-> 1,  sets |-> 1],
      [exercise_id |-> 2, routine_id |-> 1, date |-> 0,        weight |-> 75,  reps |-> 5,  sets |-> 5] }

\* main_md.py over a store that holds a history: both exercises linked to routine
\* 1 ("a"), exercise 1 also to routine 2 ("A")
InitMdHist ==
    /\ db \in { [FilledStore({[exercise_id |-> 1, routine_id |-> 1],
                              [exercise_id |-> 2, routine_id |-> 1],
                              [exercise_id |-> 1, routine_id |-> 2]})
                    EXCEPT !["workout_log"].rows = WithIds(rows)] :
                  rows \in SeqsUpTo(MdHistRows, MaxMdHist) }
    /\ now = Days(35)
    /\ AppOff
    /\ md = MdOff

NextMdHist ==
    \/ MdBuild
    \/ \E i \in 1..2 : StartSession(i)
    \/ GoHome
    \/ \E i \in 1..2 : ShowTrend(i)
    \/ DismissDialog

SpecMdHist == InitMdHist /\ [][NextMdHist]_vars

-----------------------------------------------------------------------------

\* the rows of a log that SpecWindow draws: the pair (1, 1) one second before day
\* 5, on day 5, on day 35 and on day 95, the weight telling the dates apart
WindowRows ==
    { [exercise_id |-> 1, routine_id |-> 1, date |-> Days(5) - 1, weight |-> 100, reps |-> 6,  sets |-> 1],
      [exercise_id |-> 1, routine_id |-> 1, date |-> Days(5),     weight |-> 110, reps |-> 8,  sets |-> 2],
      [exercise_id |-> 1, routine_id |-> 1, date |-> Days(35),    weight |-> 120, reps |-> 10, sets |-> 3],
      [exercise_id |-> 1, routine_id |-> 1, date |-> Days(95),    weight |-> 130, reps |-> 12, sets |-> 4] }

InitWindow ==
    /\ db \in { [FilledStore({}) EXCEPT !["workout_log"].rows = WithIds(rows)] :
                  rows \in SeqsUpTo(WindowRows, MaxWindowHist) }
    /\ now = Days(95)
    /\ AppOff
    /\ md = MdOff

\* main.py started over a history with entries at and just before the edge of a
\* window
NextWindow == StartUp \/ Select

SpecWindow == InitWindow /\ [][NextWindow]_vars

\* the rows of a log without routine_id that SpecLegacy draws: exercise 2, the
\* first of the exercise spinner, on day 0 (100 lbs) and on day 35 (110 lbs)
OldRows(columns) ==
    {r \in LegacyRows(columns) :
        r["exercise_id"] = 2 /\ r["weight"] = (IF r["date"] = 0 THEN 100 ELSE 110)}

InitLegacy ==
    /\ db \in UNION { { LegacyStore(columns, rows) :
                          rows \in SeqsUpTo(OldRows(columns), MaxLegacyRows) } :
                      columns \in {c \in LegacyLogColumns : "routine_id" \notin c} }
    /\ now = Days(35)
    /\ AppOff
    /\ md = MdOff

\* the sets main.py has logged: the rows that name a routine
LoggedRows == {i \in 1..Len(db["workout_log"].rows) : db["workout_log"].rows[i]["routine_id"] # NULL}

\* both apps over a log that had no routine_id: main.py creates the routine,
\* links it and logs under it, main_md.py opens its session and its chart
NextLegacy ==
    \/ InitDb \/ CheckAndUpdateDbSchema \/ PostInitLoad
    \/ MdBuild
    \/ SaveNewRoutine(<<"a">>, FALSE)
    \/ AssociateExerciseWithRoutine(<<"A">>, <<"a">>, FALSE)
    \/ /\ SaveData(<<"1","3","5">>, <<"1","0">>, <<"3">>, FALSE)
       /\ Cardinality(LoggedRows) < MaxLegacyLog
    \/ StartSession(1)
    \/ GoHome
    \/ ShowTrend(1)
    \/ DismissDialog

SpecLegacy == InitLegacy /\ [][NextLegacy]_vars

-----------------------------------------------------------------------------
(* Properties: the windowed change (SpecStats) *)

LogRows == db["workout_log"].rows

\* the rows of table_name named name
RowsNamed(table_name, name) ==
    {i \in 1..Len(db[table_name].rows) : db[table_name].rows[i]["name"] = name}

\* the selection of the two main spinners names one exercise and one routine
PairSelected ==
    /\ RowsNamed("exercises", exercise_spinner.text) # {}
    /\ RowsNamed("routines", routine_spinner.text) # {}

SelectedExerciseId ==
    db["exercises"].rows[CHOOSE i \in RowsNamed("exercises", exercise_spinner.text) : TRUE]["id"]
SelectedRoutineId ==
    db["routines"].rows[CHOOSE i \in RowsNamed("routines", routine_spinner.text) : TRUE]["id"]

\* the log rows of the selected exercise and routine
SelectedRows ==
    {i \in 1..Len(LogRows) : /\ LogRows[i]["exercise_id"] = SelectedExerciseId
                             /\ LogRows[i]["routine_id"] = SelectedRoutineId}

LatestDate(E) == Max({LogRows[i]["date"] : i \in E})

\* the rows of E dated at or after the latest date of E minus days
InWindow(E, days) == {i \in E : LogRows[i]["date"] >= LatestDate(E) - days * 86400}

\* the earliest row of W (of rows of one date, the one stored first) and the
\* latest row of W (of rows of one date, the one stored last)
EarliestRow(W) ==
    CHOOSE i \in W : \A j \in W :
        \/ LogRows[i]["date"] < LogRows[j]["date"]
        \/ LogRows[i]["date"] = LogRows[j]["date"] /\ i <= j
LatestRow(W) ==
    CHOOSE i \in W : \A j \in W :
        \/ LogRows[j]["date"] < LogRows[i]["date"]
        \/ LogRows[j]["date"] = LogRows[i]["date"] /\ j <= i

\* the text of a change label showing the number v
Shown(metric, v) ==
    IF metric = "weight"
    THEN <<IF v < 0 THEN "-" ELSE "+", IF v < 0 THEN 0 - v ELSE v, ".0", " lbs">>
    ELSE <<IF v < 0 THEN "-" ELSE "+", IF v < 0 THEN 0 - v ELSE v>>

\* C1: with the app started and a pair selected, for each metric and each of the
\* 30, 90 and 180 day windows that holds at least two entries of the pair, the
\* change label shows the metric of the latest entry of the window minus the
\* metric of its earliest entry.
C1_WindowedDelta ==
    (boot = "ready" /\ PairSelected /\ SelectedRows # {}) =>
        \A m \in Metrics, p \in Periods :
            LET W == InWindow(SelectedRows, PeriodDays(p))
            IN  Cardinality(W) >= 2 =>
                    labels.change[m][p] =
                        Shown(m, LogRows[LatestRow(W)][m] - LogRows[EarliestRow(W)][m])

\* a 30-day window of two entries 30 days apart showing +10, an older entry
\* left outside it
C1_Witness ==
    /\ boot = "ready" /\ PairSelected
    /\ Cardinality(SelectedRows) = 3
    /\ Cardinality(InWindow(SelectedRows, 30)) = 2
    /\ labels.change["weight"]["1m"] = <<"+", 10, ".0", " lbs">>
    /\ labels.change["reps"]["1m"] = <<"+", 2>>
    /\ labels.change["weight"]["6m"] = <<"+", 0, ".0", " lbs">>

\* C2: with the app started and a pair selected that has entries, each window
\* holding fewer than two of them shows N/A in all three metrics, which is not
\* the text of the change 0; a history of one entry shows N/A nine times.
C2_UndefinedBelowTwo ==
    (boot = "ready" /\ PairSelected /\ SelectedRows # {}) =>
        /\ \A m \in Metrics, p \in Periods :
              Cardinality(InWindow(SelectedRows, PeriodDays(p))) < 2 =>
                  /\ labels.change[m][p] = NA
                  /\ labels.change[m][p] # Shown(m, 0)
        /\ Cardinality(SelectedRows) = 1 =>
              \A m \in Metrics, p \in Periods : labels.change[m][p] = NA

\* two entries of the pair more than 30 and at most 90 days apart: N/A over one
\* month beside a number over three months
C2_Witness ==
    /\ boot = "ready" /\ PairSelected
    /\ Cardinality(SelectedRows) = 2
    /\ Cardinality(InWindow(SelectedRows, 30)) = 1
    /\ \A m \in Metrics : labels.change[m]["1m"] = NA
    /\ labels.change["weight"]["3m"] # NA

-----------------------------------------------------------------------------
(* Properties: the end-to-end scenario (SpecLog) *)

\* an exercise and a routine created and linked, two sets logged for them 35 days
\* apart (135 lbs x 10 x 3, then 145 lbs x 8 x 3), the pair selected
Scenario ==
    /\ boot = "ready" /\ PairSelected
    /\ PairTaken(db, SelectedExerciseId, SelectedRoutineId)
    /\ Len(LogRows) = 2 /\ SelectedRows = {1, 2}
    /\ LogRows[1]["weight"] = 135 /\ LogRows[1]["reps"] = 10 /\ LogRows[1]["sets"] = 3
    /\ LogRows[2]["weight"] = 145 /\ LogRows[2]["reps"] = 8 /\ LogRows[2]["sets"] = 3
    /\ LogRows[2]["date"] = LogRows[1]["date"] + 35 * 86400

\* C3 as stated: in the scenario the 30-day and the 90-day weight change are +10.
C3_Original ==
    Scenario => /\ labels.change["weight"]["1m"] = <<"+", 10, ".0", " lbs">>
                /\ labels.change["weight"]["3m"] = <<"+", 10, ".0", " lbs">>

\* C3, amended: in the scenario the 30-day weight change is undefined (N/A), the
\* first entry lying 35 days before the latest, and the 90-day weight change is +10.
C3_Amended ==
    Scenario => /\ labels.change["weight"]["1m"] = NA
                /\ labels.change["weight"]["3m"] = <<"+", 10, ".0", " lbs">>

C3_Witness == Scenario /\ status.kind = "Saved"

-----------------------------------------------------------------------------
(* Properties: the rows of the log (SpecMd) *)

\* C4: every row of workout_log has a positive weight, positive reps and
\* positive sets.
C4_RowsPositive ==
    \A i \in 1..Len(LogRows) :
        LogRows[i]["weight"] > 0 /\ LogRows[i]["reps"] > 0 /\ LogRows[i]["sets"] > 0

-----------------------------------------------------------------------------
(* Properties: the catalogue and the associations (Spec) *)

NameTables == {"exercises", "routines"}

Ids(rows) == {rows[i]["id"] : i \in 1..Len(rows)}

\* C5: in every step, each name already stored in exercises (routines) is still
\* looked up to the id it had, and a step that changes the table adds one row, of
\* a non-empty name and an id not used before, which the lookup of that name
\* returns.
C5_LookupStable ==
    [][\A t \in NameTables :
        /\ \A i \in 1..Len(db[t].rows) :
              _get_id_from_name(db', t, db[t].rows[i]["name"]) = Some(db[t].rows[i]["id"])
        /\ db'[t].rows # db[t].rows =>
              LET r == db'[t].rows[Len(db'[t].rows)]
              IN  /\ Len(db'[t].rows) = Len(db[t].rows) + 1
                  /\ r["name"] # <<>>
                  /\ r["id"] \notin Ids(db[t].rows)
                  /\ _get_id_from_name(db', t, r["name"]) = Some(r["id"])]_vars

\* two exercises created one after the other, then a link and a log entry
C5_Witness ==
    /\ Len(db["exercises"].rows) = 2
    /\ Len(db["exercise_routine"].rows) = 1
    /\ Len(LogRows) = 1
    /\ _get_id_from_name(db, "exercises", <<"a">>) = Some(1)
    /\ _get_id_from_name(db, "exercises", <<"A">>) = Some(2)

NoTwoRowsOfOneName(t) ==
    \A i, j \in 1..Len(db[t].rows) : db[t].rows[i]["name"] = db[t].rows[j]["name"] => i = j

\* C6: no two exercises and no two routines share a name; a create whose
\* stripped name is already in the table, the store answering, leaves the status
\* "already exists" (an error) and the store as it was, and a create on which the
\* store faults does not leave that status.
C6_DuplicateNameRejected ==
    /\ [](NoTwoRowsOfOneName("exercises") /\ NoTwoRowsOfOneName("routines"))
    /\ [][/\ \A text \in ExerciseTexts :
                /\ (SaveNewExercise(text, FALSE) /\ RowsNamed("exercises", Strip(text)) # {}) =>
                      (status' = Status("Exercise already exists.", Strip(text), TRUE) /\ db' = db)
                /\ SaveNewExercise(text, TRUE) => status'.kind # "Exercise already exists."
          /\ \A text \in RoutineTexts :
                /\ (SaveNewRoutine(text, FALSE) /\ RowsNamed("routines", Strip(text)) # {}) =>
                      (status' = Status("Routine already exists.", Strip(text), TRUE) /\ db' = db)
                /\ SaveNewRoutine(text, TRUE) => status'.kind # "Routine already exists."]_vars

\* "a" created a second time beside "A": the names differ by case only
C6_Witness ==
    /\ status = Status("Exercise already exists.", <<"a">>, TRUE)
    /\ RowsNamed("exercises", <<"a">>) # {} /\ RowsNamed("exercises", <<"A">>) # {}

RowsOfPair(exercise_id, routine_id) ==
    {i \in 1..Len(db["exercise_routine"].rows) :
        /\ db["exercise_routine"].rows[i]["exercise_id"] = exercise_id
        /\ db["exercise_routine"].rows[i]["routine_id"] = routine_id}

\* C7: exercise_routine never holds two rows of one pair; a link of a pair that is
\* already associated, the store answering, leaves the status "already
\* associated" (an error) and the store as it was.
C7_DuplicateLinkRejected ==
    /\ [](\A e \in Ids(db["exercises"].rows), r \in Ids(db["routines"].rows) :
             Cardinality(RowsOfPair(e, r)) <= 1)
    /\ [][\A en \in ExerciseTexts, rn \in RoutineTexts :
             (/\ AssociateExerciseWithRoutine(en, rn, FALSE)
              /\ \E e \in RowsNamed("exercises", en), r \in RowsNamed("routines", rn) :
                    RowsOfPair(db["exercises"].rows[e]["id"], db["routines"].rows[r]["id"]) # {})
             => (status' = Status("already associated", <<en, rn>>, TRUE) /\ db' = db)]_vars

\* the second link of a pair refused, one row of the pair in the table
C7_Witness ==
    /\ status.kind = "already associated"
    /\ Cardinality(RowsOfPair(1, 1)) = 1

\* C8: a handler whose INSERT meets a storage fault leaves an error status and
\* adds no row.
C8_FaultReported ==
    [][/\ \A t \in SetTexts :
             SaveData(t[1], t[2], t[3], TRUE) => (status'.error /\ db' = db)
       /\ \A text \in ExerciseTexts :
             SaveNewExercise(text, TRUE) => (status'.error /\ db' = db)
       /\ \A text \in RoutineTexts :
             SaveNewRoutine(text, TRUE) => (status'.error /\ db' = db)
       /\ \A en \in ExerciseTexts, rn \in RoutineTexts :
             AssociateExerciseWithRoutine(en, rn, TRUE) => (status'.error /\ db' = db)]_vars

AllTablesExist(d) == \A t \in TableNames : d[t].exists

\* C10: init_db leaves a store that holds the four tables as it is; the init_db
\* step of start-up leaves the four tables existing, each table that existed
\* unchanged and each table it created empty.
C10_InitDbIdempotent ==
    /\ [](AllTablesExist(db) => init_db(db) = db /\ md_init_db(db) = db)
    /\ [][(boot = "off" /\ boot' = "inited") =>
             /\ AllTablesExist(db')
             /\ \A t \in TableNames :
                   /\ db[t].exists => db'[t] = db[t]
                   /\ ~db[t].exists => db'[t].rows = <<>>]_vars

\* init_db run again by a restart over a catalogue, an association and a log entry
C10_Witness ==
    /\ boot = "inited"
    /\ Len(db["exercises"].rows) = 2 /\ Len(db["routines"].rows) = 1
    /\ Len(db["exercise_routine"].rows) >= 1 /\ Len(LogRows) = 1

-----------------------------------------------------------------------------
(* Properties: the schema upgrade (SpecSchema) *)

\* the step of either app that runs the upgrade of workout_log
UpgradeStep ==
    \/ boot = "inited" /\ boot' = "checked"
    \/ ~md.started /\ md'.started

\* C9: the upgrade of an existing workout_log keeps the number of rows and the
\* value of every column each row had; where the sets column was missing it is
\* added and every row reads sets = 1; over a table that has all seven columns the
\* upgrade changes nothing in the store.
C9_UpgradeBackfills ==
    [][(UpgradeStep /\ db["workout_log"].exists) =>
          LET old == db["workout_log"]
              new == db'["workout_log"]
          IN  /\ Len(new.rows) = Len(old.rows)
              /\ \A i \in 1..Len(old.rows) : \A c \in old.columns : new.rows[i][c] = old.rows[i][c]
              /\ "sets" \notin old.columns =>
                    /\ "sets" \in new.columns
                    /\ \A i \in 1..Len(new.rows) : new.rows[i]["sets"] = 1
              /\ LogColumns \subseteq old.columns => db' = db]_vars

\* two rows of a log that had neither routine_id nor sets, after the upgrade
C9_Witness ==
    /\ boot = "checked"
    /\ Len(LogRows) = 2
    /\ db["workout_log"].columns = LogColumns
    /\ \A i \in 1..2 : LogRows[i]["sets"] = 1 /\ LogRows[i]["routine_id"] = NULL
    /\ LogRows[1]["weight"] = 100 /\ LogRows[2]["weight"] = 110

-----------------------------------------------------------------------------
(* Properties: the session screen of main_md.py (SpecMdHist, SpecMd) *)

\* the rows of workout_log of an exercise, whatever the routine
RowsOfExercise(exercise_id) == {i \in 1..Len(LogRows) : LogRows[i]["exercise_id"] = exercise_id}

\* the step that opens the session screen of a routine
SessionOpens == md.screen = "home" /\ md'.screen = "session"

\* C11: when the session screen opens, the card of each exercise that has no row
\* in workout_log reads "New Exercise", and the card of each other exercise reads
\* the sets, reps and weight of a row of that exercise whose date no row of the
\* exercise, under any routine, exceeds.
C11_MostRecentLog ==
    [][SessionOpens =>
          \A k \in 1..Len(md'.cards) :
              LET R == RowsOfExercise(md'.cards[k]["exercise_id"])
              IN  IF R = {}
                  THEN md'.cards[k]["last_log"] = <<"New Exercise">>
                  ELSE \E i \in R :
                          /\ \A j \in R : LogRows[j]["date"] <= LogRows[i]["date"]
                          /\ md'.cards[k]["last_log"] =
                                <<"Last", LogRows[i]["sets"], LogRows[i]["reps"], LogRows[i]["weight"]>>]_vars

\* the session of routine 1 ("a"): exercise 2 ("A") has no log, exercise 1 ("a")
\* was logged last under routine 2, after two earlier rows
C11_Witness ==
    /\ md.screen = "session" /\ md.current_routine_id = 1
    /\ Len(md.cards) = 2
    /\ md.cards[1]["last_log"] = <<"New Exercise">>
    /\ md.cards[2]["last_log"] = <<"Last", 1, 5, 50>>
    /\ Cardinality(RowsOfExercise(1)) = 3
    /\ \E i \in RowsOfExercise(1) : LogRows[i]["date"] = Days(35) /\ LogRows[i]["routine_id"] = 2

\* the rows of exercises linked to routine_id in exercise_routine
LinkedTo(routine_id) ==
    {i \in 1..Len(db["exercises"].rows) :
        RowsOfPair(db["exercises"].rows[i]["id"], routine_id) # {}}

\* names holds the name of each exercise linked to routine_id, once, ascending
IsListing(names, routine_id) ==
    /\ Len(names) = Cardinality(LinkedTo(routine_id))
    /\ Range(names) = {db["exercises"].rows[i]["name"] : i \in LinkedTo(routine_id)}
    /\ \A k, l \in 1..Len(names) : k < l => TextLess(names[k], names[l])

\* the texts routine_spinner_view can hold, and a name that is no routine
ListingNames == {<<>>, DefaultRoutineText, <<"a">>, <<"A">>, <<"a", "A">>}

\* C12: load_exercises_for_routine gives, for a routine, the names of the
\* exercises linked to it, each once, ascending in ORDER BY's comparison of the
\* names, and the empty list for a name that is no routine; the cards of the
\* session screen a step opens name the exercises of its routine the same way.
C12_ListingOfRoutine ==
    /\ [](\A name \in ListingNames :
             LET R == RowsNamed("routines", name)
             IN  IF R = {}
                 THEN load_exercises_for_routine(db, name) = <<>>
                 ELSE \A r \in R :
                         IsListing(load_exercises_for_routine(db, name), db["routines"].rows[r]["id"]))
    /\ [][SessionOpens =>
             IsListing([k \in 1..Len(md'.cards) |-> md'.cards[k]["exercise_name"]],
                       md'.current_routine_id)]_vars

\* routine "a" lists "A" before "a" (stored in the other order), routine "A" lists
\* nothing, and the session of routine "a" shows the two cards
C12_Witness ==
    /\ md.screen = "session"
    /\ [k \in 1..Len(md.cards) |-> md.cards[k]["exercise_name"]] = <<<<"A">>, <<"a">>>>
    /\ load_exercises_for_routine(db, <<"a">>) = <<<<"A">>, <<"a">>>>
    /\ load_exercises_for_routine(db, <<"A">>) = <<>>
    /\ load_exercises_for_routine(db, <<"a", "A">>) = <<>>

-----------------------------------------------------------------------------
(* Properties: the summary and its outcomes (SpecStats, Spec) *)

\* C13: with the app started and a pair selected, the last recorded label shows
\* the date, sets, reps and weight of an entry of the pair whose date no entry of
\* the pair exceeds; when the pair has no entry it reads "Last Recorded: N/A" and
\* the status shows no error.
C13_LastRecorded ==
    (boot = "ready" /\ PairSelected) =>
        IF SelectedRows = {}
        THEN labels.last = <<"Last Recorded: N/A">> /\ ~status.error
        ELSE \E i \in SelectedRows :
                /\ \A j \in SelectedRows : LogRows[j]["date"] <= LogRows[i]["date"]
                /\ labels.last = <<"Last Recorded", LogRows[i]["date"] \div 86400,
                                   LogRows[i]["sets"], LogRows[i]["reps"], LogRows[i]["weight"]>>

\* three entries of the pair stored out of date order: the one of day 35 is shown
C13_Witness ==
    /\ boot = "ready" /\ PairSelected /\ SelectedRows = {1, 2, 3}
    /\ LogRows[1]["date"] = Days(5) /\ LogRows[2]["date"] = Days(35) /\ LogRows[3]["date"] = 0
    /\ LogRows[2]["weight"] = 110 /\ LogRows[1]["weight"] = 100 /\ LogRows[3]["weight"] = 100
    /\ labels.last = <<"Last Recorded", 35, 3, 10, 110>>

\* C14: whenever the app is started, the labels shown are those that
\* calculate_summary_stats gives for the persisted log and the selection of the
\* two spinners, whatever steps led to the state.
C14_LabelsFromLogAndSelection ==
    boot = "ready" =>
        labels = calculate_summary_stats(load_workout_data(db), exercise_spinner.text,
                                         routine_spinner.text, db)

\* a set saved for "a", then "A" selected, then "a" again: the labels of "a" return
C14_Witness ==
    /\ boot = "ready" /\ PairSelected
    /\ exercise_spinner.text = <<"a">> /\ Len(db["exercises"].rows) = 2
    /\ Len(LogRows) = 1 /\ SelectedRows = {1}
    /\ labels.last = <<"Last Recorded", 0, 3, 10, 135>>
    /\ labels.change["weight"]["1m"] = NA
    /\ status.kind # "Saved"

\* C15: with the app started and a pair selected that has no entry, every change
\* label shows a text other than "N/A", the text of a window with too few entries,
\* and the status shows no error.
C15_NoHistoryDistinct ==
    (boot = "ready" /\ PairSelected /\ SelectedRows = {}) =>
        /\ ~status.error
        /\ \A m \in Metrics, p \in Periods : labels.change[m][p] # NA

-----------------------------------------------------------------------------
(* Properties: the trend dialog of main_md.py (SpecMdHist) *)

\* the open dialog, and the values of the series it draws
Dialog == md.dialog[1]
Drawn == md.dialog # <<>> /\ Len(Dialog.points_data) >= 2
Values == {Dialog.points_data[i][1] : i \in 1..Len(Dialog.points_data)}

\* fractions compared by cross-multiplication (denominators are positive)
FracEq(f, n, d) == f.num * d = n * f.den
FracLess(f, g) == f.num * g.den < g.num * f.den

\* C16: a drawn series of two or more points of one value has every point at
\* half the height, the middle of the band from 10% to 90%, over a non-zero range.
C16_FlatSeriesMidBand ==
    (Drawn /\ Cardinality(Values) = 1) =>
        \A i \in 1..Len(Dialog.graph) :
            Dialog.graph[i].y.den # 0 /\ FracEq(Dialog.graph[i].y, 1, 2)

\* C17: in a drawn series of two or more points with max > min, each point of the
\* least value is at 10% of the height, each point of the greatest value at 90%,
\* every other point strictly between, and a greater value is drawn higher.
C17_BandOfSeries ==
    (Drawn /\ Cardinality(Values) > 1) =>
        /\ Len(Dialog.graph) = Len(Dialog.points_data)
        /\ \A i \in 1..Len(Dialog.graph) :
              LET v == Dialog.points_data[i][1]
                  y == Dialog.graph[i].y
              IN  /\ y.den > 0
                  /\ v = Min(Values) => FracEq(y, 1, 10)
                  /\ v = Max(Values) => FracEq(y, 9, 10)
                  /\ (Min(Values) < v /\ v < Max(Values)) =>
                        (FracLess(Fraction(1, 10), y) /\ FracLess(y, Fraction(9, 10)))
                  /\ \A j \in 1..Len(Dialog.graph) :
                        v < Dialog.points_data[j][1] => FracLess(y, Dialog.graph[j].y)

\* the series 50, 100, 75 drawn at 10%, 90% and 50% of the height
C17_Witness ==
    /\ Drawn
    /\ [i \in 1..Len(Dialog.points_data) |-> Dialog.points_data[i][1]] = <<50, 100, 75>>
    /\ FracEq(Dialog.graph[1].y, 1, 10)
    /\ FracEq(Dialog.graph[2].y, 9, 10)
    /\ FracEq(Dialog.graph[3].y, 1, 2)

\* the rows of an exercise whose date strptime reads
ReadableRows(exercise_id) ==
    {i \in RowsOfExercise(exercise_id) : LogRows[i]["date"] >= 0}

-----------------------------------------------------------------------------
(* Properties: the log as a sequence of facts (SpecLog, SpecAppend) *)

\* C19: of two rows of workout_log the one of the smaller id has the earlier or
\* the same date.
C19_DatesFollowIds ==
    \A i, j \in 1..Len(LogRows) :
        LogRows[i]["id"] < LogRows[j]["id"] => LogRows[i]["date"] <= LogRows[j]["date"]

\* the columns of a log row that no operation may change
FactColumns == {"id", "exercise_id", "routine_id", "date", "weight", "reps"}

\* C20: every step leaves each row of workout_log in its place with the values it
\* had in id, exercise_id, routine_id, date, weight and reps, and adds no row or
\* one row at the end; a step of save_data or save_set that reports the set saved,
\* the store answering, adds one row.
C20_AppendOnly ==
    [][LET old == db["workout_log"]
           new == db'["workout_log"]
       IN  /\ Len(new.rows) \in {Len(old.rows), Len(old.rows) + 1}
           /\ \A i \in 1..Len(old.rows) : \A c \in FactColumns \cap old.columns :
                 new.rows[i][c] = old.rows[i][c]
           /\ \A t \in LongLogSetTexts :
                 (SaveData(t[1], t[2], t[3], FALSE) /\ status'.kind = "Saved") =>
                     Len(new.rows) = Len(old.rows) + 1
           /\ \A t \in MdSetTexts :
                 (SaveSet(1, t[1], t[2], t[3], FALSE) /\ md'.snackbar[1] = "Saved") =>
                     Len(new.rows) = Len(old.rows) + 1]_vars

\* a row of the oldest schema, upgraded in place, and a row main_md.py logged
\* after it under routine 1
C20_Witness ==
    /\ Len(LogRows) = 2
    /\ LogRows[1]["weight"] = 100 /\ LogRows[1]["date"] = 0
    /\ LogRows[1]["routine_id"] = NULL /\ LogRows[1]["sets"] = 1
    /\ LogRows[2]["weight"] = 135 /\ LogRows[2]["date"] = Days(35) /\ LogRows[2]["routine_id"] = 1
    /\ md.snackbar = <<"Saved", <<"a">>>>
    /\ boot = "ready"

-----------------------------------------------------------------------------
(* Properties: names, links and logging in main.py (Spec) *)

\* C21: a create request whose exercise or routine name is empty or only spaces
\* ends with the "cannot be empty" error and leaves the store as it was, also
\* when the store would not have answered; no stored exercise or routine has
\* an empty name or a name of spaces only.
C21_EmptyNameRejected ==
    /\ [](\A t \in NameTables : \A i \in 1..Len(db[t].rows) :
            \E k \in 1..Len(db[t].rows[i]["name"]) : db[t].rows[i]["name"][k] # " ")
    /\ [][\A text \in ExerciseTexts \cup RoutineTexts, fault \in BOOLEAN :
            (\A k \in 1..Len(text) : text[k] = " ") =>
                /\ SaveNewExercise(text, fault) =>
                      /\ status' = Status("Exercise name cannot be empty!", <<>>, TRUE)
                      /\ db' = db
                /\ SaveNewRoutine(text, fault) =>
                      /\ status' = Status("Routine name cannot be empty!", <<>>, TRUE)
                      /\ db' = db]_vars

\* a name of one space refused while the store holds both exercises
C21_Witness ==
    /\ status = Status("Exercise name cannot be empty!", <<>>, TRUE)
    /\ Len(db["exercises"].rows) = 2

\* C22: with an exercise and a routine selected that the store holds, saving
\* 135 lbs, 10 reps and 3 sets on a store that answers reports "Saved" and
\* adds exactly one log row of that pair and those values, whether or not the
\* pair is linked; no save_data call changes exercise_routine.
C22_LogWithoutLink ==
    [][\A t \in SetTexts, fault \in BOOLEAN :
          SaveData(t[1], t[2], t[3], fault) =>
              /\ db'["exercise_routine"] = db["exercise_routine"]
              /\ (PairSelected /\ ~fault /\ t = <<<<"1","3","5">>, <<"1","0">>, <<"3">>>>) =>
                    /\ status'.kind = "Saved" /\ ~status'.error
                    /\ Len(LogRows') = Len(LogRows) + 1
                    /\ SubSeq(LogRows', 1, Len(LogRows)) = LogRows
                    /\ LET r == LogRows'[Len(LogRows')]
                       IN  /\ r["exercise_id"] = SelectedExerciseId
                           /\ r["routine_id"] = SelectedRoutineId
                           /\ r["weight"] = 135 /\ r["reps"] = 10 /\ r["sets"] = 3]_vars

\* a set saved for a pair that exercise_routine does not hold
C22_Witness ==
    /\ status.kind = "Saved"
    /\ Len(LogRows) = 1
    /\ db["exercise_routine"].rows = <<>>
    /\ LogRows[1]["exercise_id"] \in Ids(db["exercises"].rows)
    /\ LogRows[1]["routine_id"] \in Ids(db["routines"].rows)

\* C23: handlers run one after another on the UI thread, each INSERT in its own
\* transaction.  On a store that answers, a create request for a name ends with
\* exactly one row of that name: it reports success when no row had the name and
\* "already exists" when one had, so of two requests for one name, in whatever
\* order and with whatever steps between them, one succeeds and the other is
\* told of the duplicate.  The same holds of two link requests for one pair.
C23_OneOfTwoSucceeds ==
    [][/\ \A text \in ExerciseTexts :
             (SaveNewExercise(text, FALSE) /\ Strip(text) # <<>>) =>
                 /\ Cardinality({i \in 1..Len(db'["exercises"].rows) :
                                   db'["exercises"].rows[i]["name"] = Strip(text)}) = 1
                 /\ status' = IF RowsNamed("exercises", Strip(text)) = {}
                              THEN Status("Exercise added successfully.", Strip(text), FALSE)
                              ELSE Status("Exercise already exists.", Strip(text), TRUE)
       /\ \A text \in RoutineTexts :
             (SaveNewRoutine(text, FALSE) /\ Strip(text) # <<>>) =>
                 /\ Cardinality({i \in 1..Len(db'["routines"].rows) :
                                   db'["routines"].rows[i]["name"] = Strip(text)}) = 1
                 /\ status' = IF RowsNamed("routines", Strip(text)) = {}
                              THEN Status("Routine added successfully.", Strip(text), FALSE)
                              ELSE Status("Routine already exists.", Strip(text), TRUE)
       /\ \A e \in Ids(db["exercises"].rows), r \in Ids(db["routines"].rows) :
             (/\ \E en \in ExerciseTexts, rn \in RoutineTexts :
                    /\ AssociateExerciseWithRoutine(en, rn, FALSE)
                    /\ _get_id_from_name(db, "exercises", en) = Some(e)
                    /\ _get_id_from_name(db, "routines", rn) = Some(r)) =>
                 /\ Cardinality({i \in 1..Len(db'["exercise_routine"].rows) :
                                   /\ db'["exercise_routine"].rows[i]["exercise_id"] = e
                                   /\ db'["exercise_routine"].rows[i]["routine_id"] = r}) = 1
                 /\ status'.error = (RowsOfPair(e, r) # {})
                 /\ (RowsOfPair(e, r) # {}) => db' = db]_vars

\* the second request for a name refused, one row of the name in the store, and
\* a pair linked once
C23_Witness ==
    /\ status = Status("Exercise already exists.", <<"a">>, TRUE)
    /\ Cardinality(RowsNamed("exercises", <<"a">>)) = 1
    /\ Len(db["exercise_routine"].rows) = 1

-----------------------------------------------------------------------------
(* Properties: the edge of the window and the order of storage (SpecWindow),
   nested windows (SpecStats) *)

\* C24: with the app started and a pair selected that has entries, each window
\* is counted back from the date of the pair's latest entry, whatever the clock
\* shows: when an entry is dated exactly that date minus the window's days, the
\* change shown is the latest entry's metric minus that entry's; when no entry
\* is dated so and only one lies after that instant, the label is N/A, entries
\* dated a second before it notwithstanding.
C24_AnchoredInclusive ==
    (boot = "ready" /\ PairSelected /\ SelectedRows # {}) =>
        \A m \in Metrics, p \in Periods :
            LET edge == LatestDate(SelectedRows) - PeriodDays(p) * 86400
                onEdge == {i \in SelectedRows : LogRows[i]["date"] = edge}
                after == {i \in SelectedRows : LogRows[i]["date"] > edge}
            IN  /\ onEdge # {} =>
                      labels.change[m][p] =
                          Shown(m, LogRows[LatestRow(SelectedRows)][m] - LogRows[Min(onEdge)][m])
                /\ (onEdge = {} /\ Cardinality(after) = 1) => labels.change[m][p] = NA

\* the clock at day 95, the latest entry on day 35: the entry of day 5 is the
\* first value of the 30-day window, the entry one second older is not
C24_Witness ==
    /\ boot = "ready" /\ PairSelected /\ now = Days(95)
    /\ {LogRows[i]["date"] : i \in SelectedRows} = {Days(5) - 1, Days(5), Days(35)}
    /\ labels.change["weight"]["1m"] = <<"+", 10, ".0", " lbs">>
    /\ labels.change["weight"]["3m"] = <<"+", 20, ".0", " lbs">>

\* the place of each metric in the text of the last-recorded label
LastField(m) == CASE m = "sets" -> 3 [] m = "reps" -> 4 [] m = "weight" -> 5

\* C26: with the app started and a pair selected that has entries, a metric
\* whose 30-day change is shown has its 90-day and 180-day changes shown, and
\* one whose 90-day change is shown has its 180-day change shown; every change
\* shown is the metric written in the last-recorded label minus the metric of
\* some entry of the pair.
C26_WindowsNested ==
    (boot = "ready" /\ PairSelected /\ SelectedRows # {}) =>
        /\ labels.last[1] = "Last Recorded"
        /\ \A m \in Metrics :
              /\ labels.change[m]["1m"] # NA =>
                    (labels.change[m]["3m"] # NA /\ labels.change[m]["6m"] # NA)
              /\ labels.change[m]["3m"] # NA => labels.change[m]["6m"] # NA
              /\ \A p \in Periods :
                    labels.change[m][p] # NA =>
                        \E i \in SelectedRows :
                            labels.change[m][p] =
                                Shown(m, labels.last[LastField(m)] - LogRows[i][m])

\* the three changes shown, the 30-day one from another first value than the
\* 90-day one
C26_Witness ==
    /\ boot = "ready" /\ PairSelected
    /\ labels.last = <<"Last Recorded", 35, 3, 10, 110>>
    /\ labels.change["weight"]["1m"] = <<"+", 10, ".0", " lbs">>
    /\ labels.change["weight"]["3m"] = <<"+", 0, ".0", " lbs">>
    /\ labels.change["weight"]["6m"] = <<"+", 0, ".0", " lbs">>

\* the orders in which n rows can be stored
Perms(n) == {f \in [1..n -> 1..n] : \A i, j \in 1..n : i # j => f[i] # f[j]}

\* the store with the rows of workout_log in the order f
PermutedStore(f) ==
    [db EXCEPT !["workout_log"].rows = [i \in 1..Len(LogRows) |-> LogRows[f[i]]]]

\* C27: with the app started and a pair selected whose entries have pairwise
\* different dates, the labels shown are the ones main.py computes from the
\* same log rows stored in any other order.
C27_OrderOfStorage ==
    (/\ boot = "ready" /\ PairSelected
     /\ \A i, j \in SelectedRows : i # j => LogRows[i]["date"] # LogRows[j]["date"]) =>
        \A f \in Perms(Len(LogRows)) :
            calculate_summary_stats(load_workout_data(PermutedStore(f)),
                                    exercise_spinner.text, routine_spinner.text,
                                    PermutedStore(f)) = labels

\* three entries of the pair stored latest first, their changes shown
C27_Witness ==
    /\ boot = "ready" /\ PairSelected
    /\ SelectedRows = {1, 2, 3}
    /\ LogRows[1]["date"] > LogRows[2]["date"] /\ LogRows[2]["date"] > LogRows[3]["date"]
    /\ labels.change["weight"]["6m"] = <<"+", 20, ".0", " lbs">>
    /\ labels.change["weight"]["1m"] = <<"+", 10, ".0", " lbs">>

-----------------------------------------------------------------------------
(* Properties: the routine of a session (SpecMd) *)

\* C25: in main_md.py the recorded routine changes only when a session is
\* started, and an open session has a routine of the store, never 0; every step
\* that adds a log row is taken on the session screen and writes that routine
\* and an exercise linked to it.
C25_SessionRoutine ==
    /\ [](md.screen = "session" => md.current_routine_id \in Ids(db["routines"].rows))
    /\ [][/\ md'.current_routine_id # md.current_routine_id =>
                \E i \in 1..Len(md.routine_cards) :
                    /\ StartSession(i)
                    /\ md'.current_routine_id = md.routine_cards[i]["id"]
          /\ Len(LogRows') > Len(LogRows) =>
                LET r == LogRows'[Len(LogRows')]
                IN  /\ md.started /\ md.screen = "session"
                    /\ md.current_routine_id # 0
                    /\ r["routine_id"] = md.current_routine_id
                    /\ RowsOfPair(r["exercise_id"], r["routine_id"]) # {}
                    /\ \E k \in 1..Len(md.cards) :
                           md.cards[k]["exercise_id"] = r["exercise_id"]]_vars

\* a set written under routine 2, the routine of the open session
C25_Witness ==
    /\ md.screen = "session" /\ md.current_routine_id = 2
    /\ Len(LogRows) = 1
    /\ LogRows[1]["routine_id"] = 2
    /\ RowsOfPair(LogRows[1]["exercise_id"], 2) # {}

-----------------------------------------------------------------------------
(* Properties: references (Spec) and the loaded history (SpecLog) *)

\* C28: in every state main.py reaches by creating, linking and logging, each
\* row of workout_log and each row of exercise_routine names the id of a stored
\* exercise and the id of a stored routine.
C28_ReferencesExist ==
    /\ \A i \in 1..Len(LogRows) :
          /\ LogRows[i]["exercise_id"] \in Ids(db["exercises"].rows)
          /\ LogRows[i]["routine_id"] \in Ids(db["routines"].rows)
    /\ \A i \in 1..Len(db["exercise_routine"].rows) :
          /\ db["exercise_routine"].rows[i]["exercise_id"] \in Ids(db["exercises"].rows)
          /\ db["exercise_routine"].rows[i]["routine_id"] \in Ids(db["routines"].rows)

\* the second exercise linked to the routine and logged under it
C28_Witness ==
    /\ Len(LogRows) = 1
    /\ LogRows[1]["exercise_id"] = 2 /\ LogRows[1]["routine_id"] = 1
    /\ RowsOfPair(2, 1) # {}

\* C29: after each save_data call, accepted or rejected, the store answering
\* the read, self.data holds each log row with a readable date once and no
\* other entry, in ascending order of date; after a call that stored a row of
\* the selected pair the last-recorded label is not N/A.
C29_DataIsStore ==
    [][\A t \in LongLogSetTexts, fault \in BOOLEAN :
          SaveData(t[1], t[2], t[3], fault) =>
              LET readable == {i \in 1..Len(LogRows') : LogRows'[i]["date"] >= 0}
              IN  /\ Len(data') = Cardinality(readable)
                  /\ \A i \in readable : \E k \in 1..Len(data') : data'[k] = LogRows'[i]
                  /\ \A k, l \in 1..Len(data') :
                        k < l => data'[k]["date"] <= data'[l]["date"]
                  /\ Len(LogRows') > Len(LogRows) =>
                        /\ \E k \in 1..Len(data') : data'[k] = LogRows'[Len(LogRows')]
                        /\ labels'.last[1] = "Last Recorded"]_vars

\* a set saved after the clock was set back: the store holds the later date
\* first, self.data the earlier date first
C29_Witness ==
    /\ status.kind = "Saved"
    /\ Len(LogRows) = 2 /\ Len(data) = 2
    /\ LogRows[1]["date"] > LogRows[2]["date"]
    /\ data[1] = LogRows[2] /\ data[2] = LogRows[1]

-----------------------------------------------------------------------------
(* Properties: rows older than routine_id (SpecLegacy) *)

\* C30: the step that adds routine_id to workout_log leaves every row with a
\* NULL routine_id, and no later step changes the routine_id of a row.  In
\* main.py, with a pair selected, the labels are those of the rows that name
\* the selected routine: without such a row the last-recorded label is N/A and
\* no change is shown, with such rows the last-recorded label is the latest of
\* them and every change shown is a difference of two of them.  In main_md.py
\* the card of an exercise that has rows, all without a routine, reads the
\* values of one of them, and the chart counts every row of its exercise that
\* has a readable date.
C30_LegacyRowsOutside ==
    /\ [][/\ ("routine_id" \notin db["workout_log"].columns
               /\ "routine_id" \in db'["workout_log"].columns) =>
                 /\ Len(LogRows') = Len(LogRows)
                 /\ \A i \in 1..Len(LogRows') : LogRows'[i]["routine_id"] = NULL
          /\ "routine_id" \in db["workout_log"].columns =>
                 \A i \in 1..Len(LogRows) : LogRows'[i]["routine_id"] = LogRows[i]["routine_id"]
          /\ SessionOpens =>
                 \A k \in 1..Len(md'.cards) :
                     LET R == RowsOfExercise(md'.cards[k]["exercise_id"])
                     IN  (R # {} /\ \A i \in R : LogRows[i]["routine_id"] = NULL) =>
                             \E i \in R : md'.cards[k]["last_log"] =
                                 <<"Last", LogRows[i]["sets"], LogRows[i]["reps"], LogRows[i]["weight"]>>
          /\ (md.dialog = <<>> /\ md'.dialog # <<>>) =>
                 md'.dialog[1].entries =
                     Cardinality(ReadableRows(md'.dialog[1].exercise_id))]_vars
    /\ []((boot = "ready" /\ PairSelected) =>
            IF SelectedRows = {}
            THEN /\ labels.last = <<"Last Recorded: N/A">>
                 /\ \A m \in Metrics, p \in Periods : labels.change[m][p] \in {NA, NoHistory}
            ELSE /\ labels.last =
                        <<"Last Recorded", LogRows[LatestRow(SelectedRows)]["date"] \div 86400,
                          LogRows[LatestRow(SelectedRows)]["sets"],
                          LogRows[LatestRow(SelectedRows)]["reps"],
                          LogRows[LatestRow(SelectedRows)]["weight"]>>
                 /\ \A m \in Metrics, p \in Periods :
                        labels.change[m][p] # NA =>
                            \E i, j \in SelectedRows :
                                labels.change[m][p] = Shown(m, LogRows[i][m] - LogRows[j][m]))

\* two rows without a routine, of 100 and 110 lbs, and two sets of 135 lbs logged
\* under the routine: main.py shows no change, main_md.py charts the four rows
C30_Witness ==
    /\ boot = "ready" /\ PairSelected
    /\ SelectedExerciseId = 2
    /\ {LogRows[i]["weight"] : i \in {i \in RowsOfExercise(2) : LogRows[i]["routine_id"] = NULL}} = {100, 110}
    /\ Cardinality(SelectedRows) = 2
    /\ labels.change["weight"]["1m"] = <<"+", 0, ".0", " lbs">>
    /\ md.dialog # <<>>
    /\ md.dialog[1].entries = 4

====
